---- MODULE Spec2Model ----
(***************************************************************************)
(* Model of xg-model/src/feature_engineering.py: the point-in-triangle     *)
(* test isInside and the transformer XGFeatEng (coordinate normalisation,  *)
(* shot distance and angle, goal-cone occlusion features).                 *)
(*                                                                         *)
(* Numbers.  A length is carried as an integer number of 1/Scale metres,   *)
(* so that 3.66, 7.32 and 32.5 are whole; the inputs are chosen so that    *)
(* every product and quotient the code forms is exact in that unit.  A     *)
(* quotient n/d is kept as the pair it is formed from and compared by      *)
(* cross-multiplication.  sqrt and arctan are kept symbolically (see       *)
(* np_sqrt and np_arctan).                                                 *)
(*                                                                         *)
(* A call starts at pc = "idle" and ends at pc = "done", leaving the       *)
(* operation, its arguments and its outcome (a returned value or a raised  *)
(* exception) in op, args and ret.  isInside, _calculate_angle and         *)
(* _check_if_in_goal_cone are one step; transform goes through its         *)
(* statements, pc naming the column it computes next and df being its      *)
(* local DataFrame.  self is the XGFeatEng instance.  transform may be     *)
(* called a second time on the batch it was given, last then holding the   *)
(* outcome of the first call.                                              *)
(*                                                                         *)
(* Model of src/utils.py, src/get_data.py and the flattening methods of     *)
(* rating_analysis/src/preprocess.py: safe_num_cast, the row builders       *)
(* json_to_pandas_player and json_to_pandas_fixture_stats, and the get_*    *)
(* functions with their cache files.  files is the cache directory (the     *)
(* content of each file that exists) and requests the API GETs issued so    *)
(* far, each with the response it got.                                      *)
(***************************************************************************)
EXTENDS Integers, Sequences, FiniteSets, TLC

VARIABLES self, pc, op, args, ret, df, last, files, requests

vars == <<self, pc, op, args, ret, df, last, files, requests>>

----------------------------------------------------------------------------
(* Bounds of the model *)

\* isInside is called with vertices on the grid 3 * (0..GridMax) squared.
GridMax == 2
\* A batch has 1..MaxRows rows.
MaxRows == 2
\* The freeze frames of one batch (or one players_list) hold at most
\* MaxPlayers players altogether.
MaxPlayers == 2
\* safe_num_cast is called with the strings of at most MaxLen characters.
MaxLen == 3
\* League and fixture ids are 1..MaxId.
MaxId == 1
\* At most MaxRequests API GETs are issued.
MaxRequests == 2

----------------------------------------------------------------------------
(* Numbers *)

Scale == 100 \div 2

\* The source coordinate frame: x in 0..120, y in 0..80.
SrcLength == 120
SrcWidth == 80

Abs(n) == IF n < 0 THEN 0 - n ELSE n

\* 0 <= n/d <= 1 for d # 0
Between01(n, d) == IF d > 0 THEN 0 <= n /\ n <= d ELSE d <= n /\ n <= 0

\* The sign of n/d for d # 0: -1, 0 or 1
SignOfQuotient(n, d) ==
    IF n = 0 THEN 0
    ELSE IF (n > 0) = (d > 0) THEN 1 ELSE 0 - 1

\* Outcome of a call: a returned value or a raised exception.
Return(v) == [exc |-> "", val |-> v]
Raise(e) == [exc |-> e, val |-> <<>>]

\* Python's None and a present value
None == <<>>
Some(v) == <<v>>

----------------------------------------------------------------------------
(* isInside *)

isInside_strict(x1, y1, x2, y2, x3, y3, x, y) ==
    LET den == (y2 - y3) * (x1 - x3) + (x3 - x2) * (y1 - y3)
        a_num == (y2 - y3) * (x - x3) + (x3 - x2) * (y - y3)
        b_num == (y3 - y1) * (x - x3) + (x1 - x3) * (y - y3)
        c_num == den - a_num - b_num
    IN  IF den = 0
        THEN Raise("ZeroDivisionError")
        ELSE Return(/\ Between01(a_num, den) /\ a_num # 0
                    /\ Between01(b_num, den) /\ b_num # 0
                    /\ Between01(c_num, den) /\ c_num # 0)

isInside_guarded(x1, y1, x2, y2, x3, y3, x, y) ==
    LET den == (y2 - y3) * (x1 - x3) + (x3 - x2) * (y1 - y3)
        a_num == (y2 - y3) * (x - x3) + (x3 - x2) * (y - y3)
        b_num == (y3 - y1) * (x - x3) + (x1 - x3) * (y - y3)
        c_num == den - a_num - b_num
    IN  IF den = 0
        THEN Return(FALSE)
        ELSE Return(/\ Between01(a_num, den)
                    /\ Between01(b_num, den)
                    /\ Between01(c_num, den))

\* a = a_num / den, b = b_num / den, c = 1 - a - b = c_num / den.  The
\* arguments are Python floats: a zero divisor raises ZeroDivisionError.
isInside(x1, y1, x2, y2, x3, y3, x, y) ==
    LET den == (y2 - y3) * (x1 - x3) + (x3 - x2) * (y1 - y3)
        a_num == (y2 - y3) * (x - x3) + (x3 - x2) * (y - y3)
        b_num == (y3 - y1) * (x - x3) + (x1 - x3) * (y - y3)
        c_num == den - a_num - b_num
    IN  IF den = 0
        THEN Raise("ZeroDivisionError")
        ELSE Return(/\ Between01(a_num, den)
                    /\ Between01(b_num, den)
                    /\ Between01(c_num, den))

----------------------------------------------------------------------------
(* XGFeatEng *)

\* __init__: pitch_dim = (105, 65) in metres, goal_dim = 7.32 m
XGFeatEng == [pitch_dim |-> <<105, 65>>, goal_dim |-> (732 * Scale) \div 100]

_normalize_x_by_width(slf, x) == (x * slf.pitch_dim[2]) \div SrcLength

\* pitch_dim[0] and pitch_dim[1] of the code are pitch_dim[1] and
\* pitch_dim[2] here.
_normalize_x(slf, x) == (x * slf.pitch_dim[1]) \div SrcLength

_normalize_y(slf, y) == (y * slf.pitch_dim[2]) \div SrcWidth

\* np.arctan(n / d) on numpy floats, kept as the quotient it is applied to:
\* n / 0 is +inf or -inf (arctan = +pi/2 or -pi/2) and 0 / 0 is NaN.
np_arctan(n, d) == [num |-> n, den |-> d]

\* arctan(t) < 0 iff t < 0; NaN < 0 and -0.0 < 0 are False.
ArctanIsNegative(a) ==
    IF a.den = 0 THEN a.num < 0 ELSE SignOfQuotient(a.num, a.den) < 0

\* np.sqrt(n) for n >= 0, kept as its radicand (in 1/Scale^2 m^2); NaN when
\* an operand is missing.
np_sqrt(n) == [nan |-> FALSE, sqrt_of |-> n]
NaN == [nan |-> TRUE, sqrt_of |-> 0]

_calculate_angle_no_shift(slf, x, y) ==
    LET L == slf.pitch_dim[1] * Scale
        half == slf.goal_dim \div 2
        angle == np_arctan(slf.goal_dim * (L - x),
                           (L - x) * (L - x) + y * y - half * half)
    IN  [arctan |-> angle, plus_pi |-> FALSE]

_calculate_angle_shift_zero(slf, x, y) ==
    LET L == slf.pitch_dim[1] * Scale
        half == slf.goal_dim \div 2
        angle == np_arctan(slf.goal_dim * (L - x),
                           (L - x) * (L - x) + y * y - half * half)
    IN  [arctan |-> angle,
         plus_pi |-> ArctanIsNegative(angle)
                        \/ (angle.num = 0 /\ angle.den # 0)]

\* The angle is arctan(num / den), plus pi where that is negative.
_calculate_angle(slf, x, y) ==
    LET L == slf.pitch_dim[1] * Scale
        half == slf.goal_dim \div 2
        angle == np_arctan(slf.goal_dim * (L - x),
                           (L - x) * (L - x) + y * y - half * half)
    IN  [arctan |-> angle, plus_pi |-> ArctanIsNegative(angle)]

\* a and b are pairs of optional numbers (a missing one is NaN)
_calcuate_distance(a, b) ==
    IF a[1] = None \/ a[2] = None \/ b[1] = None \/ b[2] = None
    THEN NaN
    ELSE np_sqrt((a[1][1] - b[1][1]) * (a[1][1] - b[1][1])
                 + (a[2][1] - b[2][1]) * (a[2][1] - b[2][1]))

\* The two "goal posts" of _check_if_in_goal_cone
LeftPost(slf) ==
    <<slf.pitch_dim[1] * Scale,
      slf.pitch_dim[2] * Scale - slf.goal_dim \div 2>>

RightPost(slf) ==
    <<slf.pitch_dim[1] * Scale,
      slf.pitch_dim[2] * Scale + slf.goal_dim \div 2>>

\* isInside for one player of the list
PlayerInside(slf, player, x_shot, y_shot) ==
    isInside(x_shot, y_shot,
             LeftPost(slf)[1], LeftPost(slf)[2],
             RightPost(slf)[1], RightPost(slf)[2],
             _normalize_x(slf, player.location[1]),
             _normalize_y(slf, player.location[2]))

\* The list comprehension: the players are tested in order and the first
\* exception ends it.
_check_if_in_goal_cone(slf, players_list, x_shot, y_shot) ==
    LET Raises(i) == PlayerInside(slf, players_list[i], x_shot, y_shot).exc # ""
        Keep(player) == PlayerInside(slf, player, x_shot, y_shot).val = TRUE
    IN  IF \E i \in 1..Len(players_list) : Raises(i)
        THEN Raise(PlayerInside(slf,
                 players_list[CHOOSE i \in 1..Len(players_list) :
                     Raises(i) /\ \A j \in 1..(i - 1) : ~Raises(j)],
                 x_shot, y_shot).exc)
        ELSE Return(SelectSeq(players_list, Keep))

----------------------------------------------------------------------------
(* XGFeatEng.transform *)

\* A batch (DataFrame) is [index |-> labels, rows |-> records], the fields
\* of a record being the columns.

\* df.apply(f, 1): f is applied to the rows in order, the first exception
\* ends the call; otherwise the results are the new column.
FirstRaised(results) ==
    results[CHOOSE i \in 1..Len(results) :
        /\ results[i].exc # ""
        /\ \A j \in 1..(i - 1) : results[j].exc = ""].exc

Applied(results) ==
    IF \E i \in 1..Len(results) : results[i].exc # ""
    THEN Raise(FirstRaised(results))
    ELSE Return([i \in 1..Len(results) |-> results[i].val])

\* for ... in x['freeze_frame'] with the frame None: 'NoneType' object is
\* not iterable
Iterate(freeze_frame) ==
    IF freeze_frame = None THEN Raise("TypeError") ELSE Return(freeze_frame[1])

NotTeammate(i) == ~i.teammate

OpposingGoalkeeper_any_side(i) == i.position.name = "Goalkeeper"

OpposingGoalkeeper(i) == ~i.teammate /\ i.position.name = "Goalkeeper"

\* lines 124-130
players_between(slf, x) ==
    IF x.freeze_frame # None
    THEN LET cone == _check_if_in_goal_cone(slf, x.freeze_frame[1],
                                            x.x_shot, x.y_shot)
         IN  IF cone.exc # "" THEN cone ELSE Return(Some(Len(cone.val)))
    ELSE Return(None)

\* lines 133-141
opponents_between(slf, x) ==
    IF x.freeze_frame # None
    THEN LET cone == _check_if_in_goal_cone(slf,
                         SelectSeq(x.freeze_frame[1], NotTeammate),
                         x.x_shot, x.y_shot)
         IN  IF cone.exc # "" THEN cone ELSE Return(Some(Len(cone.val)))
    ELSE Return(None)

\* lines 144-152: len(...) > 0 is evaluated before "freeze_frame is None"
is_there_goalkeeper(slf, x) ==
    LET frame == Iterate(x.freeze_frame)
    IN  IF frame.exc # "" THEN frame
        ELSE LET cone == _check_if_in_goal_cone(slf,
                             SelectSeq(frame.val, OpposingGoalkeeper),
                             x.x_shot, x.y_shot)
             IN  IF cone.exc # "" THEN cone
                 ELSE Return(IF Len(cone.val) > 0 \/ x.freeze_frame = None
                             THEN 1 ELSE 0)

\* np.min of a non-empty set of distances
np_min(ds) == np_sqrt(CHOOSE m \in ds : \A n \in ds : m <= n)

\* lines 156-170: the distances are taken from (df['x_shot'], df['y_shot']),
\* the columns of the whole batch, to each opponent in the row's cone.
nearest_opponent(slf, x, dframe) ==
    IF x.freeze_frame # None /\ x.opponents_between[1] > 0
    THEN LET cone == _check_if_in_goal_cone(slf,
                         SelectSeq(x.freeze_frame[1], NotTeammate),
                         x.x_shot, x.y_shot)
         IN  IF cone.exc # "" THEN cone
             ELSE Return(Some(np_min(
                    {_calcuate_distance(
                         <<Some(dframe.rows[j].x_shot),
                           Some(dframe.rows[j].y_shot)>>,
                         <<Some(_normalize_x(slf, cone.val[k].location[1])),
                           Some(_normalize_y(slf, cone.val[k].location[2]))>>
                     ).sqrt_of : j \in 1..Len(dframe.rows),
                                 k \in 1..Len(cone.val)})))
    ELSE Return(None)

DroppedColumns_keep_frame ==
    {"key_pass", "pass_height", "x_pass_received", "y_pass_received"}

\* line 173
DroppedColumns ==
    {"freeze_frame", "key_pass", "pass_height", "x_pass_received",
     "y_pass_received"}

Drop(x, columns) == [c \in (DOMAIN x) \ columns |-> x[c]]

Vectorised_any_height(slf, x0) ==
    LET x1 == [x0 EXCEPT !.x_shot = _normalize_x(slf, x0.x_shot),
                         !.y_shot = _normalize_y(slf, x0.y_shot)]
        y_center == Abs(x1.y_shot - (slf.pitch_dim[2] * Scale) \div 2)
    IN  x1 @@
        [y_center |-> y_center,
         distance |-> _calcuate_distance(
                          <<Some(slf.pitch_dim[1] * Scale), Some(0)>>,
                          <<Some(x1.x_shot), Some(y_center)>>),
         angle |-> _calculate_angle(slf, x1.x_shot, y_center),
         has_key_pass |-> IF x1.key_pass = None THEN 0 ELSE 1,
         distance_before_shot |-> _calcuate_distance(
                          <<Some(x1.x_shot), Some(x1.y_shot)>>,
                          <<x1.x_pass_received, x1.y_pass_received>>),
         is_high_pass |-> IF x1.pass_height # None THEN 1 ELSE 0]

\* lines 94-120: the vectorised columns of one row
Vectorised(slf, x0) ==
    LET x1 == [x0 EXCEPT !.x_shot = _normalize_x(slf, x0.x_shot),
                         !.y_shot = _normalize_y(slf, x0.y_shot)]
        y_center == Abs(x1.y_shot - (slf.pitch_dim[2] * Scale) \div 2)
    IN  x1 @@
        [y_center |-> y_center,
         distance |-> _calcuate_distance(
                          <<Some(slf.pitch_dim[1] * Scale), Some(0)>>,
                          <<Some(x1.x_shot), Some(y_center)>>),
         angle |-> _calculate_angle(slf, x1.x_shot, y_center),
         has_key_pass |-> IF x1.key_pass = None THEN 0 ELSE 1,
         distance_before_shot |-> _calcuate_distance(
                          <<Some(x1.x_shot), Some(x1.y_shot)>>,
                          <<x1.x_pass_received, x1.y_pass_received>>),
         is_high_pass |-> IF x1.pass_height = Some("High Pass") THEN 1 ELSE 0]

\* df[column] = df.apply(f, 1), results being what f returned for each row
WithColumn(dframe, column, results) ==
    [dframe EXCEPT !.rows = [i \in 1..Len(dframe.rows) |->
                                dframe.rows[i] @@ (column :> results[i])]]

----------------------------------------------------------------------------
(* utils.safe_num_cast *)

\* A Python (JSON) value is a record of its type and of what it holds: the
\* characters of a str, num / den for an int, a float and a bool (den = 0
\* for NaN), the elements of a list.  None and the empty dict hold nothing.
PyValue(type, chars, num, den, items) ==
    [type |-> type, chars |-> chars, num |-> num, den |-> den, items |-> items]
PyStr(chars) == PyValue("str", chars, 0, 0, <<>>)
PyInt(n) == PyValue("int", <<>>, n, 1, <<>>)
PyFloat(num, den) == PyValue("float", <<>>, num, den, <<>>)
PyBool(b) == PyValue("bool", <<>>, IF b THEN 1 ELSE 0, 1, <<>>)
PyList(elems) == PyValue("list", <<>>, 0, 0, elems)
PyDict == PyValue("dict", <<>>, 0, 0, <<>>)
PyNone == PyValue("NoneType", <<>>, 0, 0, <<>>)
\* np.nan
np_nan == PyFloat(0, 0)

DecimalDigits == {"4", "5"}

DigitValue(c) == IF c = "4" THEN 4 ELSE 5

RECURSIVE IntOfDigits(_)
IntOfDigits(ds) ==
    IF ds = <<>> THEN 0
    ELSE 10 * IntOfDigits(SubSeq(ds, 1, Len(ds) - 1)) + DigitValue(ds[Len(ds)])

RECURSIVE PowerOfTen(_)
PowerOfTen(n) == IF n = 0 THEN 1 ELSE 10 * PowerOfTen(n - 1)

\* str.strip() of the blanks around the characters
Stripped(chars) ==
    LET inked == {i \in 1..Len(chars) : chars[i] # " "}
    IN  IF inked = {} THEN <<>>
        ELSE SubSeq(chars,
                    CHOOSE i \in inked : \A j \in inked : i <= j,
                    CHOOSE i \in inked : \A j \in inked : j <= i)

IsDigitOrPoint(c) == c \in DecimalDigits \cup {"."}

IsDigit(c) == c \in DecimalDigits

\* float(x) of a str: blanks around are skipped, then an optional sign and
\* digits with at most one point and at least one digit; anything else is
\* a ValueError.
float_of_str(chars) ==
    LET t == Stripped(chars)
        negative == t # <<>> /\ t[1] = "-"
        u == IF negative THEN Tail(t) ELSE t
        points == {i \in 1..Len(u) : u[i] = "."}
        digits == SelectSeq(u, IsDigit)
        decimals == IF points = {} THEN 0
                    ELSE Len(u) - (CHOOSE i \in points : TRUE)
    IN  IF /\ SelectSeq(u, IsDigitOrPoint) = u
           /\ Cardinality(points) <= 1
           /\ digits # <<>>
        THEN Return(PyFloat((IF negative THEN 0 - 1 ELSE 1) * IntOfDigits(digits),
                          PowerOfTen(decimals)))
        ELSE Raise("ValueError")

\* np.float(x), the builtin float
float(x) ==
    CASE x.type = "str" -> float_of_str(x.chars)
      [] x.type \in {"int", "bool"} -> Return(PyFloat(x.num, 1))
      [] x.type = "float" -> Return(x)
      [] OTHER -> Raise("TypeError")

\* num[-1]: the last character of a str (a str itself), the last element
\* of a list
LastItem(num) ==
    CASE num.type = "str" ->
            IF num.chars = <<>> THEN Raise("IndexError")
            ELSE Return(PyStr(<<num.chars[Len(num.chars)]>>))
      [] num.type = "list" ->
            IF num.items = <<>> THEN Raise("IndexError")
            ELSE Return(num.items[Len(num.items)])
      [] num.type = "dict" -> Raise("KeyError")
      [] OTHER -> Raise("TypeError")

\* num[:-1] of a str or a list
AllButLast(num) ==
    [num EXCEPT !.chars = SubSeq(@, 1, Len(@) - 1),
                !.items = SubSeq(@, 1, Len(@) - 1)]

\* float / 100
DividedBy100(x) == PyFloat(x.num, 100 * x.den)

\* lines 14-20, the body of the try
safe_num_cast_try(num) ==
    LET last_item == LastItem(num)
    IN  IF last_item.exc # "" THEN last_item
        ELSE IF last_item.val = PyStr(<<"%">>)
             THEN LET cast == float(AllButLast(num))
                  IN  IF cast.exc # "" THEN cast
                      ELSE Return(DividedBy100(cast.val))
             ELSE float(num)

safe_num_cast_no_except(num) == safe_num_cast_try(num)

\* lines 13-22: any exception of the body is caught and np.nan returned
safe_num_cast(num) ==
    LET tried == safe_num_cast_try(num)
    IN  IF tried.exc # "" THEN Return(np_nan) ELSE tried

----------------------------------------------------------------------------
(* preprocess: flattening a record into a DataFrame row *)

\* A row is [index |-> its label, columns |-> its values by column]; the
\* column x is <<x>> here, the column 'feat.x' is <<feat, x>>, and the label
\* '_'.join of the ids is the tuple of the ids.

\* PlayerData(struct_features=['shots', 'passes']), the other lists the
\* defaults of __init__
PlayerData ==
    [id_features |-> <<"event_id", "player_id", "team_id">>,
     num_features |-> <<"rating", "minutes_played">>,
     cat_features |-> <<"player_name", "team_name", "position">>,
     bool_features |-> <<"captain", "substitute">>,
     struct_features |-> <<"shots", "passes">>]

\* The elements of a sequence
Items(seq) == {seq[i] : i \in 1..Len(seq)}

\* The outcome of a comprehension whose values are the outcomes casts[k]:
\* the exception of one that raised, if any
Comprehended(casts) ==
    IF \E k \in DOMAIN casts : casts[k].exc # ""
    THEN Raise(casts[CHOOSE k \in DOMAIN casts : casts[k].exc # ""].exc)
    ELSE Return([k \in DOMAIN casts |-> casts[k].val])

\* PlayerData.json_to_pandas_player
json_to_pandas_player(slf, j_player) ==
    LET cat == [k \in {<<x>> : x \in Items(slf.cat_features)} |->
                   j_player[k[1]]]
        num == Comprehended(
                  [k \in {<<x>> : x \in Items(slf.num_features)} |->
                      safe_num_cast(j_player[k[1]])])
        bool == [k \in {<<x>> : x \in Items(slf.bool_features)} |->
                    PyBool(j_player[k[1]] = PyStr(<<"T", "r", "u", "e">>))]
        struct == Comprehended(
                  [k \in UNION {{<<feat, x>> : x \in DOMAIN j_player[feat]} :
                                   feat \in Items(slf.struct_features)} |->
                      safe_num_cast(j_player[k[1]][k[2]])])
        ind == [i \in 1..Len(slf.id_features) |-> j_player[slf.id_features[i]]]
    IN  IF num.exc # "" THEN num
        ELSE IF struct.exc # "" THEN struct
        ELSE Return([index |-> ind,
                     columns |-> struct.val @@ bool @@ num.val @@ cat])

\* LeagueData().fixture_stats_feat
LeagueData ==
    [fixture_stats_feat |->
        <<"Shots on Goal", "Shots off Goal", "Total Shots", "Blocked Shots",
          "Shots insidebox", "Shots outsidebox", "Fouls", "Corner Kicks",
          "Offsides", "Ball Possession", "Yellow Cards", "Red Cards",
          "Goalkeeper Saves", "Total passes", "Passes accurate", "Passes %">>]

\* LeagueData.json_to_pandas_fixture_stats; the column 'home.' + feat with
\* its blanks as underscores is <<"home", feat>> here
json_to_pandas_fixture_stats(slf, j_fixture) ==
    LET home == Comprehended(
                  [k \in {<<"home", feat>> :
                             feat \in Items(slf.fixture_stats_feat)} |->
                      safe_num_cast(j_fixture[k[2]].home)])
        away == Comprehended(
                  [k \in {<<"away", feat>> :
                             feat \in Items(slf.fixture_stats_feat)} |->
                      safe_num_cast(j_fixture[k[2]].away)])
    IN  IF home.exc # "" THEN home
        ELSE IF away.exc # "" THEN away
        ELSE Return([index |-> j_fixture["fixture_id"],
                     columns |-> away.val @@ home.val])

----------------------------------------------------------------------------
(* get_data *)

\* The cache directory with no file in it
NoFiles == [f \in {} |-> <<>>]

\* The parsed response of the API, r_dict: whether it has the keys 'api'
\* and 'message', and its 'api' object.
\* get_json_response, lines 27-30 (the GET itself is the caller's step)
get_json_response(r_dict) ==
    IF r_dict.has_api THEN Return(r_dict)
    ELSE IF r_dict.has_message THEN Raise("Exception")
    ELSE Raise("KeyError")

output_json_response_open_first(json_input, root_name, output_file, disk) ==
    IF root_name \notin DOMAIN json_input.api
    THEN [outcome |-> Raise("KeyError"),
          files |-> (output_file :> (root_name :> "")) @@ disk]
    ELSE [outcome |-> Return(root_name :> json_input.api[root_name]),
          files |-> (output_file :> (root_name :> json_input.api[root_name]))
                       @@ disk]

\* lines 53-59: the outcome, and the cache directory as the call leaves it
output_json_response(json_input, root_name, output_file, disk) ==
    IF root_name \notin DOMAIN json_input.api
    THEN [outcome |-> Raise("KeyError"), files |-> disk]
    ELSE [outcome |-> Return(root_name :> json_input.api[root_name]),
          files |-> (output_file :> (root_name :> json_input.api[root_name]))
                       @@ disk]

get_cached_always_calls(output_file, root_name, disk, r_dict) ==
    LET r == get_json_response(r_dict)
        written == output_json_response(r.val, root_name, output_file, disk)
    IN  IF r.exc # ""
        THEN [outcome |-> r, files |-> disk, requested |-> TRUE]
        ELSE [outcome |-> written.outcome, files |-> written.files,
              requested |-> TRUE]

\* The body the four get_* functions share (lines 83-92, 119-129, 156-166,
\* 193-203): the cached file is loaded if it exists, otherwise the API is
\* called, r_dict being its response.  requested tells whether the GET was
\* issued.
get_cached(output_file, root_name, disk, r_dict) ==
    IF output_file \in DOMAIN disk
    THEN [outcome |-> Return(disk[output_file]), files |-> disk,
          requested |-> FALSE]
    ELSE LET r == get_json_response(r_dict)
             written == output_json_response(r.val, root_name, output_file,
                                             disk)
         IN  IF r.exc # ""
             THEN [outcome |-> r, files |-> disk, requested |-> TRUE]
             ELSE [outcome |-> written.outcome, files |-> written.files,
                   requested |-> TRUE]

----------------------------------------------------------------------------
(* Inputs *)

\* isInside: vertices on a grid of multiples of 3 (so that the centroid is a
\* grid point of the query grid), query points on the unit grid around them.
GridCoords == {3 * k : k \in 0..GridMax}
QueryCoords == 0..(3 * GridMax)
\* a point far outside the pitch
FarPoint == <<0 - 50, 0 - 50>>
QueryPoints == (QueryCoords \X QueryCoords) \cup {FarPoint}

\* A location of the source frame, in 1/Scale units
Src(x, y) == <<x * Scale, y * Scale>>

\* Shot events: a central shot 21 m out with no pass context; a shot from
\* the centre of the goal line; a shot 14 m out, 13 m right of the centre.
ShotEvents ==
    {[x_shot |-> Src(96, 40)[1], y_shot |-> Src(96, 40)[2], goal |-> 0,
      key_pass |-> None, pass_height |-> None,
      x_pass_received |-> None, y_pass_received |-> None],
     [x_shot |-> Src(120, 40)[1], y_shot |-> Src(120, 40)[2], goal |-> 1,
      key_pass |-> Some("pass-1"), pass_height |-> Some("High Pass"),
      x_pass_received |-> Some(Src(112, 40)[1]),
      y_pass_received |-> Some(Src(112, 40)[2])],
     [x_shot |-> Src(104, 56)[1], y_shot |-> Src(104, 56)[2], goal |-> 0,
      key_pass |-> Some("pass-2"), pass_height |-> Some("Ground Pass"),
      x_pass_received |-> Some(Src(100, 48)[1]),
      y_pass_received |-> Some(Src(100, 48)[2])]}

Player(loc, mate, name) ==
    [location |-> loc, teammate |-> mate, position |-> [name |-> name]]

\* Player snapshots.  For the central shot (96, 40), normalised (84, 32.5):
\* (112, 40) -> (98, 32.5) is on the line to the goal centre (105, 32.5);
\* (108, 60) -> (94.5, 48.75) is on the line to the corner (105, 65);
\* (60, 8) -> (52.5, 6.5) is behind the shot.
PlayerSet ==
    {Player(Src(112, 40), FALSE, "Goalkeeper"),
     Player(Src(108, 60), FALSE, "Goalkeeper"),
     Player(Src(108, 60), TRUE, "Goalkeeper"),
     Player(Src(108, 60), FALSE, "Center Back"),
     Player(Src(60, 8), FALSE, "Goalkeeper")}

\* The index labels of a batch of n rows: not 0..n-1, not sorted
IndexOf(n) == [i \in 1..n |-> 7 * (n - i) + 3]

\* The batch of n rows with the events ev[1..n], whose freeze frames share
\* out the players pl[1..m] in order: player j is in the frame of row
\* owner[j], and a row i with framed[i] false has no freeze frame (None).
Batch(n, ev, pl, owner, framed) ==
    [index |-> IndexOf(n),
     rows |-> [i \in 1..n |->
        LET before == Cardinality({j \in DOMAIN pl : owner[j] < i})
            mine == Cardinality({j \in DOMAIN pl : owner[j] = i})
        IN  [x_shot |-> ev[i].x_shot, y_shot |-> ev[i].y_shot,
             goal |-> ev[i].goal, key_pass |-> ev[i].key_pass,
             pass_height |-> ev[i].pass_height,
             x_pass_received |-> ev[i].x_pass_received,
             y_pass_received |-> ev[i].y_pass_received,
             freeze_frame |-> IF framed[i]
                              THEN Some(SubSeq(pl, before + 1, before + mine))
                              ELSE None]]]

\* Each batch is described once: the owners do not decrease, and only a row
\* that owns no player goes without a frame.  The rows of a batch are
\* different shot events.
IsBatch(n, ev, pl, owner, framed) ==
    /\ \A i \in DOMAIN ev : \A k \in DOMAIN ev : i < k => ev[i] # ev[k]
    /\ \A j \in DOMAIN pl : \A k \in DOMAIN pl : j < k => owner[j] <= owner[k]
    /\ \A j \in DOMAIN pl : framed[owner[j]]

\* Normalised shot locations for _check_if_in_goal_cone: those of the shot
\* events, and the point of the goal line 13 m right of the centre
ConeShots ==
    {<<_normalize_x(XGFeatEng, e.x_shot), _normalize_y(XGFeatEng, e.y_shot)>> :
        e \in ShotEvents}
    \cup {<<_normalize_x(XGFeatEng, Src(120, 56)[1]),
            _normalize_y(XGFeatEng, Src(120, 56)[2])>>}

\* Normalised (x, y_center) for _calculate_angle: the source grid of
\* multiples of (4, 8), and the two points nearest the goal centre of the
\* circle of radius goal_dim / 2 on which the denominator is zero.
AngleXs ==
    {_normalize_x(XGFeatEng, 4 * k * Scale) : k \in 0..(SrcLength \div 4)}
    \cup {XGFeatEng.pitch_dim[1] * Scale - XGFeatEng.goal_dim \div 2}
AngleYs ==
    {Abs(_normalize_y(XGFeatEng, 8 * k * Scale)
         - (XGFeatEng.pitch_dim[2] * Scale) \div 2) : k \in 0..(SrcWidth \div 8)}
    \cup {XGFeatEng.goal_dim \div 2}

\* Source coordinates for _normalize_x and _normalize_y: every 0.16 of
\* 0..120 and every 0.32 of 0..80, the finest steps whose images are whole
\* in 1/Scale m.
RawXs == {8 * k : k \in 0..((SrcLength * Scale) \div 8)}
RawYs == {16 * k : k \in 0..((SrcWidth * Scale) \div 16)}

\* The characters of the strings given to safe_num_cast
Chars == {"4", "5", ".", "%", "x", "-", " "}

\* The strings of at most MaxLen characters
Strings == UNION {[1..n -> Chars] : n \in 0..MaxLen}

\* Values that are no strings: None, ints, floats, a bool, lists, a dict
NonStrings ==
    {PyNone, PyInt(90), PyInt(0), PyFloat(75, 10), PyBool(TRUE),
     PyList(<<>>), PyList(<<PyStr(<<"%">>)>>), PyList(<<PyInt(4)>>), PyDict}

\* Values of a numerical field of a record: '4.5', '45%', 'x', '', None, 90
FieldValues ==
    {PyStr(<<"4", ".", "5">>), PyStr(<<"4", "5", "%">>), PyStr(<<"x">>),
     PyStr(<<>>), PyNone, PyInt(90)}

\* A player record of the API with the given numerical fields
PlayerRecord(rating, minutes_played, shots_total, passes_accuracy, captain) ==
    [event_id |-> PyInt(4), player_id |-> PyInt(5), team_id |-> PyInt(45),
     player_name |-> PyStr(<<"x">>), team_name |-> PyStr(<<"x", "x">>),
     position |-> PyStr(<<"x">>),
     rating |-> rating, minutes_played |-> minutes_played,
     captain |-> captain, substitute |-> PyStr(<<"x">>),
     shots |-> [total |-> shots_total, on |-> PyInt(0)],
     passes |-> [accuracy |-> passes_accuracy]]

\* A fixture statistics record with the given Ball Possession of the home
\* team and Passes % of the away team, every other statistic being '5'
FixtureRecord(possession, passes) ==
    [feat \in Items(LeagueData.fixture_stats_feat) \cup {"fixture_id"} |->
        IF feat = "fixture_id" THEN PyInt(4)
        ELSE [home |-> IF feat = "Ball Possession" THEN possession
                       ELSE PyStr(<<"5">>),
              away |-> IF feat = "Passes %" THEN passes
                       ELSE PyStr(<<"5">>)]]

\* The content of a response under its root name
Payloads == {"data-1", "data-2"}

\* The responses of the API to a GET whose root name is root_name: one with
\* the root name in its 'api' object, one whose 'api' object lacks it, one
\* with no 'api' key but a 'message'
Responses(root_name) ==
    {[has_api |-> TRUE, has_message |-> FALSE, api |-> (root_name :> data)] :
        data \in Payloads}
    \cup {[has_api |-> TRUE, has_message |-> FALSE, api |-> ("error" :> "")],
          [has_api |-> FALSE, has_message |-> TRUE, api |-> ("" :> "")]}

GetOps == {"get_leagues", "get_fixtures", "get_fixture_stats",
           "get_player_stats"}

----------------------------------------------------------------------------
(* The calls *)

Init ==
    /\ self = XGFeatEng
    /\ pc = "idle"
    /\ op = "none"
    /\ args = <<>>
    /\ ret = Return(None)
    /\ df = None
    /\ last = None
    /\ files = NoFiles
    /\ requests = <<>>

CallIsInside ==
    /\ pc = "idle"
    /\ \E v1 \in GridCoords \X GridCoords, v2 \in GridCoords \X GridCoords,
          v3 \in GridCoords \X GridCoords, p \in QueryPoints :
          /\ args' = <<v1, v2, v3, p>>
          /\ ret' = isInside(v1[1], v1[2], v2[1], v2[2], v3[1], v3[2],
                             p[1], p[2])
    /\ op' = "isInside"
    /\ pc' = "done"
    /\ UNCHANGED <<self, df, last, files, requests>>

CallNormalizeX ==
    /\ pc = "idle"
    /\ \E x \in RawXs :
          /\ args' = <<x>>
          /\ ret' = Return(_normalize_x(self, x))
    /\ op' = "_normalize_x"
    /\ pc' = "done"
    /\ UNCHANGED <<self, df, last, files, requests>>

CallNormalizeY ==
    /\ pc = "idle"
    /\ \E y \in RawYs :
          /\ args' = <<y>>
          /\ ret' = Return(_normalize_y(self, y))
    /\ op' = "_normalize_y"
    /\ pc' = "done"
    /\ UNCHANGED <<self, df, last, files, requests>>

CallCalculateAngle ==
    /\ pc = "idle"
    /\ \E x \in AngleXs, y \in AngleYs :
          /\ args' = <<x, y>>
          /\ ret' = Return(_calculate_angle(self, x, y))
    /\ op' = "_calculate_angle"
    /\ pc' = "done"
    /\ UNCHANGED <<self, df, last, files, requests>>

CallCheckIfInGoalCone ==
    /\ pc = "idle"
    /\ \E m \in 0..MaxPlayers :
          \E players_list \in [1..m -> PlayerSet], shot \in ConeShots :
             /\ args' = <<players_list, shot[1], shot[2]>>
             /\ ret' = _check_if_in_goal_cone(self, players_list,
                                              shot[1], shot[2])
    /\ op' = "_check_if_in_goal_cone"
    /\ pc' = "done"
    /\ UNCHANGED <<self, df, last, files, requests>>

\* transform(X), lines 91-120: df = X.copy() and the vectorised columns
CallTransform ==
    /\ pc = "idle"
    /\ \E n \in 1..MaxRows, m \in 0..MaxPlayers :
          \E ev \in [1..n -> ShotEvents], owner \in [1..m -> 1..n],
             framed \in [1..n -> BOOLEAN], pl \in [1..m -> PlayerSet] :
             /\ IsBatch(n, ev, pl, owner, framed)
             /\ args' = <<Batch(n, ev, pl, owner, framed)>>
             /\ df' = [args'[1] EXCEPT !.rows =
                          [i \in 1..n |-> Vectorised(self, args'[1].rows[i])]]
    /\ op' = "transform"
    /\ pc' = "players_between"
    /\ UNCHANGED <<self, ret, last, files, requests>>

\* A second transform(X) on the batch of the call that has ended, on the same
\* instance or on a new XGFeatEng(); last keeps the outcome of the first.
CallTransformAgain ==
    /\ pc = "done"
    /\ op = "transform"
    /\ last = None
    /\ last' = Some(ret)
    /\ self' \in {self, XGFeatEng}
    /\ df' = [args[1] EXCEPT !.rows =
                 [i \in 1..Len(args[1].rows) |->
                     Vectorised(self', args[1].rows[i])]]
    /\ ret' = Return(None)
    /\ pc' = "players_between"
    /\ UNCHANGED <<op, args, files, requests>>

\* The four df[column] = df.apply(..., 1) of transform: an exception ends
\* the call, otherwise the column is added and transform goes on to its
\* next statement.

\* lines 124-130: df['players_between'] = df.apply(..., 1)
PlayersBetween ==
    /\ pc = "players_between"
    /\ LET applied == Applied([i \in 1..Len(df.rows) |->
                                 players_between(self, df.rows[i])])
       IN  IF applied.exc # ""
           THEN /\ ret' = applied
                /\ pc' = "done"
                /\ df' = df
           ELSE /\ df' = WithColumn(df, "players_between", applied.val)
                /\ pc' = "opponents_between"
                /\ ret' = ret
    /\ UNCHANGED <<self, op, args, last, files, requests>>

\* lines 133-141: df['opponents_between'] = df.apply(..., 1)
OpponentsBetween ==
    /\ pc = "opponents_between"
    /\ LET applied == Applied([i \in 1..Len(df.rows) |->
                                 opponents_between(self, df.rows[i])])
       IN  IF applied.exc # ""
           THEN /\ ret' = applied
                /\ pc' = "done"
                /\ df' = df
           ELSE /\ df' = WithColumn(df, "opponents_between", applied.val)
                /\ pc' = "is_there_goalkeeper"
                /\ ret' = ret
    /\ UNCHANGED <<self, op, args, last, files, requests>>

\* lines 144-152: df['is_there_goalkeeper'] = df.apply(..., 1)
IsThereGoalkeeper ==
    /\ pc = "is_there_goalkeeper"
    /\ LET applied == Applied([i \in 1..Len(df.rows) |->
                                 is_there_goalkeeper(self, df.rows[i])])
       IN  IF applied.exc # ""
           THEN /\ ret' = applied
                /\ pc' = "done"
                /\ df' = df
           ELSE /\ df' = WithColumn(df, "is_there_goalkeeper", applied.val)
                /\ pc' = "nearest_opponent"
                /\ ret' = ret
    /\ UNCHANGED <<self, op, args, last, files, requests>>

\* lines 156-170: df['nearest_opponent'] = df.apply(..., 1)
NearestOpponent ==
    /\ pc = "nearest_opponent"
    /\ LET applied == Applied([i \in 1..Len(df.rows) |->
                                 nearest_opponent(self, df.rows[i], df)])
       IN  IF applied.exc # ""
           THEN /\ ret' = applied
                /\ pc' = "done"
                /\ df' = df
           ELSE /\ df' = WithColumn(df, "nearest_opponent", applied.val)
                /\ pc' = "drop"
                /\ ret' = ret
    /\ UNCHANGED <<self, op, args, last, files, requests>>

\* lines 173-174: return df.drop([...], 1)
DropUnused ==
    /\ pc = "drop"
    /\ ret' = Return([df EXCEPT !.rows = [i \in 1..Len(df.rows) |->
                                         Drop(df.rows[i], DroppedColumns)]])
    /\ pc' = "done"
    /\ UNCHANGED <<self, op, args, df, last, files, requests>>

Next ==
    \/ CallIsInside
    \/ CallNormalizeX
    \/ CallNormalizeY
    \/ CallCalculateAngle
    \/ CallCheckIfInGoalCone
    \/ CallTransform
    \/ CallTransformAgain
    \/ PlayersBetween
    \/ OpponentsBetween
    \/ IsThereGoalkeeper
    \/ NearestOpponent
    \/ DropUnused

Spec == Init /\ [][Next]_vars

----------------------------------------------------------------------------
(* The calls of utils, preprocess and get_data *)

CallSafeNumCast ==
    /\ pc = "idle"
    /\ \E num \in Strings \cup NonStrings :
          /\ args' = <<IF num \in Strings THEN PyStr(num) ELSE num>>
          /\ ret' = safe_num_cast(args'[1])
    /\ op' = "safe_num_cast"
    /\ pc' = "done"
    /\ UNCHANGED <<self, df, last, files, requests>>

CallJsonToPandasPlayer ==
    /\ pc = "idle"
    /\ \E rating \in FieldValues, minutes_played \in FieldValues,
          shots_total \in FieldValues, passes_accuracy \in FieldValues,
          captain \in {PyStr(<<"T", "r", "u", "e">>), PyStr(<<"x">>)} :
          /\ args' = <<PlayerRecord(rating, minutes_played, shots_total,
                                    passes_accuracy, captain)>>
          /\ ret' = json_to_pandas_player(PlayerData, args'[1])
    /\ op' = "json_to_pandas_player"
    /\ pc' = "done"
    /\ UNCHANGED <<self, df, last, files, requests>>

CallJsonToPandasFixtureStats ==
    /\ pc = "idle"
    /\ \E possession \in FieldValues, passes \in FieldValues :
          /\ args' = <<FixtureRecord(possession, passes)>>
          /\ ret' = json_to_pandas_fixture_stats(LeagueData, args'[1])
    /\ op' = "json_to_pandas_fixture_stats"
    /\ pc' = "done"
    /\ UNCHANGED <<self, df, last, files, requests>>

\* A call get_*(id) with the default output_path: the cache file
\* output_file is <<directory, id>>, and the id of get_leagues, which has
\* none, is 0.  The calls follow one another.

\* lines 62-92
CallGetLeagues ==
    /\ pc \in {"idle", "done"}
    /\ op \in {"none"} \cup GetOps
    /\ \E r_dict \in Responses("leagues") :
          LET output_file == <<"leagues", 0>>
              got == get_cached(output_file, "leagues", files, r_dict)
          IN  /\ got.requested => Len(requests) < MaxRequests
              /\ args' = <<0>>
              /\ ret' = got.outcome
              /\ files' = got.files
              /\ requests' = IF got.requested
                             THEN Append(requests, [output_file |-> output_file,
                                                    r_dict |-> r_dict])
                             ELSE requests
    /\ op' = "get_leagues"
    /\ pc' = "done"
    /\ UNCHANGED <<self, df, last>>

\* lines 95-129
CallGetFixtures ==
    /\ pc \in {"idle", "done"}
    /\ op \in {"none"} \cup GetOps
    /\ \E league_id \in 1..MaxId, r_dict \in Responses("fixtures") :
          LET output_file == <<"fixtures", league_id>>
              got == get_cached(output_file, "fixtures", files, r_dict)
          IN  /\ got.requested => Len(requests) < MaxRequests
              /\ args' = <<league_id>>
              /\ ret' = got.outcome
              /\ files' = got.files
              /\ requests' = IF got.requested
                             THEN Append(requests, [output_file |-> output_file,
                                                    r_dict |-> r_dict])
                             ELSE requests
    /\ op' = "get_fixtures"
    /\ pc' = "done"
    /\ UNCHANGED <<self, df, last>>

\* lines 132-166
CallGetFixtureStats ==
    /\ pc \in {"idle", "done"}
    /\ op \in {"none"} \cup GetOps
    /\ \E fixture_id \in 1..MaxId, r_dict \in Responses("statistics") :
          LET output_file == <<"fixture_stats", fixture_id>>
              got == get_cached(output_file, "statistics", files, r_dict)
          IN  /\ got.requested => Len(requests) < MaxRequests
              /\ args' = <<fixture_id>>
              /\ ret' = got.outcome
              /\ files' = got.files
              /\ requests' = IF got.requested
                             THEN Append(requests, [output_file |-> output_file,
                                                    r_dict |-> r_dict])
                             ELSE requests
    /\ op' = "get_fixture_stats"
    /\ pc' = "done"
    /\ UNCHANGED <<self, df, last>>

\* lines 169-203
CallGetPlayerStats ==
    /\ pc \in {"idle", "done"}
    /\ op \in {"none"} \cup GetOps
    /\ \E fixture_id \in 1..MaxId, r_dict \in Responses("players") :
          LET output_file == <<"player_stats", fixture_id>>
              got == get_cached(output_file, "players", files, r_dict)
          IN  /\ got.requested => Len(requests) < MaxRequests
              /\ args' = <<fixture_id>>
              /\ ret' = got.outcome
              /\ files' = got.files
              /\ requests' = IF got.requested
                             THEN Append(requests, [output_file |-> output_file,
                                                    r_dict |-> r_dict])
                             ELSE requests
    /\ op' = "get_player_stats"
    /\ pc' = "done"
    /\ UNCHANGED <<self, df, last>>

NextData ==
    \/ CallSafeNumCast
    \/ CallJsonToPandasPlayer
    \/ CallJsonToPandasFixtureStats
    \/ CallGetLeagues
    \/ CallGetFixtures
    \/ CallGetFixtureStats
    \/ CallGetPlayerStats

SpecData == Init /\ [][NextData]_vars

----------------------------------------------------------------------------
(* Vocabulary of the properties: plane geometry and the pitch, stated       *)
(* without the operators of the model.                                      *)

\* Twice the signed area of the triangle a, b, p
Cross(a, b, p) ==
    (b[1] - a[1]) * (p[2] - a[2]) - (b[2] - a[2]) * (p[1] - a[1])

Collinear(a, b, c) == Cross(a, b, c) = 0

\* p is inside or on the boundary of the triangle a, b, c: it is on no
\* edge's outer side, whichever way round the vertices are given.
InClosedTriangle(a, b, c, p) ==
    LET d1 == Cross(a, b, p)
        d2 == Cross(b, c, p)
        d3 == Cross(c, a, p)
    IN  ~((d1 < 0 \/ d2 < 0 \/ d3 < 0) /\ (d1 > 0 \/ d2 > 0 \/ d3 > 0))

\* p is strictly inside the non-degenerate triangle a, b, c
StrictlyInTriangle(a, b, c, p) ==
    LET d1 == Cross(a, b, p)
        d2 == Cross(b, c, p)
        d3 == Cross(c, a, p)
    IN  (d1 > 0 /\ d2 > 0 /\ d3 > 0) \/ (d1 < 0 /\ d2 < 0 /\ d3 < 0)

\* p is on the segment from a to b
OnSegment(a, b, p) ==
    /\ Cross(a, b, p) = 0
    /\ (a[1] <= p[1] /\ p[1] <= b[1]) \/ (b[1] <= p[1] /\ p[1] <= a[1])
    /\ (a[2] <= p[2] /\ p[2] <= b[2]) \/ (b[2] <= p[2] /\ p[2] <= a[2])

\* The pitch, in 1/Scale m: the goal line x = 105, the centreline y = 32.5,
\* the goalposts 3.66 either side of the goal centre.
GoalLineX == 105 * Scale
GoalCentreY == (65 * Scale) \div 2
HalfGoal == (366 * Scale) \div 100
GoalPostA == <<GoalLineX, GoalCentreY - HalfGoal>>
GoalPostB == <<GoalLineX, GoalCentreY + HalfGoal>>

\* A source location on the pitch in metres: x * 105 / 120, y * 65 / 80
Normalised(loc) == <<(loc[1] * 105) \div 120, (loc[2] * 65) \div 80>>

\* The goal cone of a shot: the triangle shot, goalpost, goalpost
InGoalCone(shot, player) ==
    InClosedTriangle(shot, GoalPostA, GoalPostB, Normalised(player.location))

StrictlyInGoalCone(shot, player) ==
    StrictlyInTriangle(shot, GoalPostA, GoalPostB,
                       Normalised(player.location))

Called(name) == pc = "done" /\ op = name

Returned(name) == Called(name) /\ ret.exc = ""

----------------------------------------------------------------------------
(* isInside (C8, C9) *)

C9_ZeroDenominatorIffCollinear ==
    /\ Called("isInside") =>
          ((ret.exc = "ZeroDivisionError")
              <=> Collinear(args[1], args[2], args[3]))
    /\ (Called("_check_if_in_goal_cone") /\ Len(args[1]) > 0) =>
          /\ (ret.exc = "ZeroDivisionError") <=> (args[2] = GoalLineX)
          /\ ret.exc \in {"", "ZeroDivisionError"}

\* A shot from the goal line, off its centre, and a non-empty players list
C9_Witness ==
    /\ Called("_check_if_in_goal_cone")
    /\ args[2] = GoalLineX /\ args[3] # GoalCentreY
    /\ Len(args[1]) > 0
    /\ ret.exc = "ZeroDivisionError"

----------------------------------------------------------------------------
(* _check_if_in_goal_cone (C1) *)

PlayersInGoalCone(players_list, shot) ==
    LET In(player) == InGoalCone(shot, player)
    IN  SelectSeq(players_list, In)

\* C1: _check_if_in_goal_cone returns exactly the players, in their order,
\* whose normalised location is inside or on the triangle of the shot
\* location and the goalposts (105, 32.5 - 3.66) and (105, 32.5 + 3.66).
\* (Stated for the calls that return.)
C1_ConeIsShotGoalpostTriangle ==
    Returned("_check_if_in_goal_cone") =>
        ret.val = PlayersInGoalCone(args[1], <<args[2], args[3]>>)

----------------------------------------------------------------------------
(* XGFeatEng.transform (C2 - C6, C10) *)

\* The input batch of a transform call and, when it returned, its output
X_in == args[1]
X_out == ret.val

Rows(dframe) == 1..Len(dframe.rows)

\* The shot of input row i, in metres
ShotOf(i) == Normalised(<<X_in.rows[i].x_shot, X_in.rows[i].y_shot>>)

HasFrame(i) == X_in.rows[i].freeze_frame # None

FrameOf(i) == X_in.rows[i].freeze_frame[1]

SquaredDistance(a, b) ==
    (a[1] - b[1]) * (a[1] - b[1]) + (a[2] - b[2]) * (a[2] - b[2])

\* The non-teammates of row i that _check_if_in_goal_cone puts in the cone
\* of row i's shot
OpponentsInComputedCone(i) ==
    LET Opp(player) == ~player.teammate
    IN  _check_if_in_goal_cone(self, SelectSeq(FrameOf(i), Opp),
                               ShotOf(i)[1], ShotOf(i)[2]).val

\* The least distance from row i's own shot to those opponents
OwnNearest(i) ==
    LET opps == OpponentsInComputedCone(i)
        ds == {SquaredDistance(ShotOf(i), Normalised(opps[k].location)) :
                  k \in 1..Len(opps)}
    IN  IF opps = <<>> THEN None
        ELSE Some(np_sqrt(CHOOSE m \in ds : \A n \in ds : m <= n))

\* C2: for a batch of any size, nearest_opponent of a row with a freeze
\* frame is the least distance from that row's own shot to the
\* non-teammates in that row's goal cone, and null when there is none.
\* (The cone is taken as _check_if_in_goal_cone computes it.)
C2_NearestOpponentFromOwnShot ==
    Returned("transform") =>
        \A i \in Rows(X_in) :
            HasFrame(i) => X_out.rows[i].nearest_opponent = OwnNearest(i)

\* C3: transform of a batch holding a shot with no freeze frame completes
\* and gives that row is_there_goalkeeper = 1 and null players_between,
\* opponents_between and nearest_opponent.
C3_NoFreezeFrameCompletes ==
    (Called("transform") /\ \E i \in Rows(X_in) : ~HasFrame(i)) =>
        /\ ret.exc = ""
        /\ \A i \in Rows(X_in) : ~HasFrame(i) =>
              /\ X_out.rows[i].is_there_goalkeeper = 1
              /\ X_out.rows[i].players_between = None
              /\ X_out.rows[i].opponents_between = None
              /\ X_out.rows[i].nearest_opponent = None

\* Row i of the input with one more player at the end of its freeze
\* frame, as transform has it when it comes to count the players
WithAppended(i, player) ==
    Vectorised(self, [X_in.rows[i] EXCEPT
                         !.freeze_frame = Some(Append(@[1], player))])

\* C4: for a shot not on the goal line, appending a player strictly inside
\* the goal cone raises players_between by exactly 1, and
\* opponents_between by 1 for a non-teammate, by 0 for a teammate.
C4_AppendInsideConeAddsOne ==
    Returned("transform") =>
        \A i \in Rows(X_in) : \A player \in PlayerSet :
            (/\ HasFrame(i)
             /\ ShotOf(i)[1] # GoalLineX
             /\ StrictlyInGoalCone(ShotOf(i), player)) =>
                /\ players_between(self, WithAppended(i, player)) =
                      Return(Some(X_out.rows[i].players_between[1] + 1))
                /\ opponents_between(self, WithAppended(i, player)) =
                      Return(Some(X_out.rows[i].opponents_between[1]
                                  + IF player.teammate THEN 0 ELSE 1))

\* C5: for a row with a freeze frame, is_there_goalkeeper is 1 iff some
\* player of the frame is a non-teammate, has position name "Goalkeeper"
\* and is in the goal cone of the shot; otherwise it is 0.
C5_GoalkeeperInCone ==
    Returned("transform") =>
        \A i \in Rows(X_in) : HasFrame(i) =>
            X_out.rows[i].is_there_goalkeeper =
                IF \E k \in 1..Len(FrameOf(i)) :
                      /\ ~FrameOf(i)[k].teammate
                      /\ FrameOf(i)[k].position.name = "Goalkeeper"
                      /\ InGoalCone(ShotOf(i), FrameOf(i)[k])
                THEN 1 ELSE 0

----------------------------------------------------------------------------
(* Distance and angle (C6, C7) *)

\* The value of an angle [arctan |-> arctan(num / den), plus_pi |-> shifted]:
\* arctan is odd and increasing with values in [-pi/2, pi/2], so its sign is
\* the sign of its argument (num / 0 being +inf or -inf).
SignOfArctan(a) ==
    IF a.den = 0
    THEN (IF a.num > 0 THEN 1 ELSE IF a.num < 0 THEN 0 - 1 ELSE 0)
    ELSE SignOfQuotient(a.num, a.den)

AngleIsNaN(angle) == angle.arctan.num = 0 /\ angle.arctan.den = 0

AngleIsZero(angle) ==
    ~AngleIsNaN(angle) /\ ~angle.plus_pi /\ SignOfArctan(angle.arctan) = 0

AngleIsNegative(angle) ==
    ~AngleIsNaN(angle) /\ ~angle.plus_pi /\ SignOfArctan(angle.arctan) < 0

\* pi/2 is arctan(+inf), or arctan(-inf) + pi
AngleIsHalfPi(angle) ==
    /\ angle.arctan.den = 0 /\ angle.arctan.num # 0
    /\ angle.plus_pi <=> (angle.arctan.num < 0)

\* 0 < angle < pi
AngleStrictlyBetweenZeroAndPi(angle) ==
    /\ ~AngleIsNaN(angle)
    /\ \/ ~angle.plus_pi /\ SignOfArctan(angle.arctan) > 0
       \/ angle.plus_pi /\ SignOfArctan(angle.arctan) < 0

OnGoalLineCentre(i) == ShotOf(i) = <<GoalLineX, GoalCentreY>>

\* C6 as stated: for a shot from the centre of the goal line, distance = 0
\* and angle = pi/2.
C6_GoalLineCentreAngleHalfPi ==
    Returned("transform") =>
        \A i \in Rows(X_in) : OnGoalLineCentre(i) =>
            /\ X_out.rows[i].distance = np_sqrt(0)
            /\ AngleIsHalfPi(X_out.rows[i].angle)

\* C6 amended: for a shot from the centre of the goal line, y_center = 0,
\* distance = 0 and angle = 0: the numerator of the quotient is zero, and
\* its arctan, not being negative, is not shifted.
C6_GoalLineCentreAngleZero ==
    Returned("transform") =>
        \A i \in Rows(X_in) : OnGoalLineCentre(i) =>
            /\ X_out.rows[i].y_center = 0
            /\ X_out.rows[i].distance = np_sqrt(0)
            /\ AngleIsZero(X_out.rows[i].angle)

\* transform returned for a batch with a shot from the goal-line centre
C6_Witness ==
    /\ Returned("transform")
    /\ \E i \in Rows(X_in) : OnGoalLineCentre(i)

\* The denominator of the angle formula for the normalised shot (x, y)
AngleDenominator(x, y) ==
    (GoalLineX - x) * (GoalLineX - x) + y * y - HalfGoal * HalfGoal

OnPitch(x, y) == 0 <= x /\ x <= GoalLineX /\ 0 <= y /\ y <= GoalCentreY

\* C7 as stated: on the pitch and off the zeros of the denominator, the
\* angle is strictly between 0 and pi.
C7_AngleStrictlyInside ==
    (/\ Returned("_calculate_angle")
     /\ OnPitch(args[1], args[2])
     /\ AngleDenominator(args[1], args[2]) # 0) =>
        AngleStrictlyBetweenZeroAndPi(ret.val)

\* C7 amended: on the pitch and off the zeros of the denominator, the angle
\* is in [0, pi): it is 0 exactly for a shot from the goal line (x = 105)
\* and strictly between 0 and pi otherwise; a result that computes negative
\* is shifted by +pi, and the angle is never negative.
C7_AngleInHalfOpenRange ==
    (/\ Returned("_calculate_angle")
     /\ OnPitch(args[1], args[2])
     /\ AngleDenominator(args[1], args[2]) # 0) =>
        /\ ~AngleIsNegative(ret.val)
        /\ ret.val.plus_pi <=> (SignOfArctan(ret.val.arctan) < 0)
        /\ AngleIsZero(ret.val) <=> (args[1] = GoalLineX)
        /\ args[1] # GoalLineX => AngleStrictlyBetweenZeroAndPi(ret.val)

\* A shot inside the circle on the goal mouth: the arctan is negative and
\* is shifted
C7_Witness ==
    /\ Returned("_calculate_angle")
    /\ OnPitch(args[1], args[2])
    /\ AngleDenominator(args[1], args[2]) < 0
    /\ args[1] # GoalLineX
    /\ ret.val.plus_pi

----------------------------------------------------------------------------
(* Normalisation (C12) *)

\* C12: for source coordinates 0 <= x <= 120 and 0 <= y <= 80,
\* _normalize_x(x) = x * 105 / 120 and _normalize_y(y) = y * 65 / 80; the
\* images lie in 0..105 and 0..65 and are taken back by x' * 120 / 105 and
\* y' * 80 / 65; the x_shot and y_shot that transform writes are these
\* images of the input's, and y_center = |y_shot - 32.5| is in [0, 32.5].
C12_NormalisedOnPitch ==
    /\ Called("_normalize_x") =>
          /\ ret.exc = ""
          /\ ret.val * 120 = args[1] * 105
          /\ 0 <= ret.val /\ ret.val <= GoalLineX
          /\ (ret.val * 120) \div 105 = args[1]
    /\ Called("_normalize_y") =>
          /\ ret.exc = ""
          /\ ret.val * 80 = args[1] * 65
          /\ 0 <= ret.val /\ ret.val <= 2 * GoalCentreY
          /\ (ret.val * 80) \div 65 = args[1]
    /\ Returned("transform") =>
          \A i \in Rows(X_in) :
             /\ X_out.rows[i].x_shot * 120 = X_in.rows[i].x_shot * 105
             /\ X_out.rows[i].y_shot * 80 = X_in.rows[i].y_shot * 65
             /\ 0 <= X_out.rows[i].x_shot /\ X_out.rows[i].x_shot <= GoalLineX
             /\ 0 <= X_out.rows[i].y_shot
             /\ X_out.rows[i].y_shot <= 2 * GoalCentreY
             /\ X_out.rows[i].y_center \in
                   {X_out.rows[i].y_shot - GoalCentreY,
                    GoalCentreY - X_out.rows[i].y_shot}
             /\ 0 <= X_out.rows[i].y_center
             /\ X_out.rows[i].y_center <= GoalCentreY

\* transform returned for a batch with a shot off the centreline
C12_Witness ==
    /\ Returned("transform")
    /\ \E i \in Rows(X_in) :
          /\ X_in.rows[i].y_shot # (SrcWidth * Scale) \div 2
          /\ X_out.rows[i].y_center > 0

----------------------------------------------------------------------------
(* The pass context (C13) *)

\* C13: for every row, has_key_pass is 1 if the row's key_pass is present
\* and 0 if it is null; is_high_pass is 1 if pass_height is the string
\* "High Pass" and 0 for any other value and for a missing pass_height;
\* both are always 0 or 1.
C13_PassFlags ==
    Returned("transform") =>
        \A i \in Rows(X_in) :
            /\ X_out.rows[i].has_key_pass \in {0, 1}
            /\ X_out.rows[i].is_high_pass \in {0, 1}
            /\ (X_out.rows[i].has_key_pass = 1)
                  <=> (X_in.rows[i].key_pass # None)
            /\ (X_out.rows[i].is_high_pass = 1)
                  <=> (X_in.rows[i].pass_height = Some("High Pass"))

\* transform returned for a batch with a row whose pass_height is missing
\* and a row whose pass_height is another string than "High Pass"
C13_Witness ==
    /\ Returned("transform")
    /\ \E i \in Rows(X_in) :
          /\ X_in.rows[i].pass_height = None
          /\ X_in.rows[i].key_pass = None
          /\ X_out.rows[i].is_high_pass = 0
    /\ \E i \in Rows(X_in) :
          /\ X_in.rows[i].pass_height \notin {None, Some("High Pass")}
          /\ X_in.rows[i].key_pass # None
          /\ X_out.rows[i].is_high_pass = 0

----------------------------------------------------------------------------
(* Determinism and independence of the rows (C11) *)

\* What transform returns for row i of the input when the batch holds that
\* row alone: each applied lambda reads the row's shot and freeze frame,
\* and that of nearest_opponent opponents_between and the shot columns too.
AloneRow(i) ==
    LET x == Vectorised(self, X_in.rows[i])
        counted == x @@ ("opponents_between" :> opponents_between(self, x).val)
    IN  Drop(x @@
             [players_between |-> players_between(self, x).val,
              opponents_between |-> opponents_between(self, x).val,
              is_there_goalkeeper |-> is_there_goalkeeper(self, x).val,
              nearest_opponent |->
                  nearest_opponent(self, counted, [rows |-> <<counted>>]).val],
             DroppedColumns)

\* C11: transform keeps no hidden state.  In every step of a call the input
\* batch and the instance's pitch_dim and goal_dim stay as they are; a
\* second call on the same batch, on the same instance or on a new one, ends
\* as the first did, with an identical output; and when a call has returned,
\* the output row of each input row is the one transform gives for that row
\* on its own, whatever the other rows of the batch are.
C11_DeterministicRowIndependent ==
    [][/\ (op = "transform" /\ op' = "transform") =>
             /\ args' = args
             /\ self'.pitch_dim = self.pitch_dim
             /\ self'.goal_dim = self.goal_dim
       /\ (Called("transform") /\ last # None)' => (ret = last[1])'
       /\ Returned("transform") =>
             \A i \in Rows(X_in) : X_out.rows[i] = AloneRow(i)
      ]_vars

----------------------------------------------------------------------------
(* The shape of the output (C10) *)

DerivedColumns ==
    {"y_center", "distance", "angle", "has_key_pass", "distance_before_shot",
     "is_high_pass", "players_between", "opponents_between",
     "is_there_goalkeeper", "nearest_opponent"}

RemovedColumns ==
    {"freeze_frame", "key_pass", "pass_height", "x_pass_received",
     "y_pass_received"}

\* C10: when transform completes, the output has the rows of the input,
\* with the same index in the same order; the five raw columns are absent,
\* every other input column is present, and so are the derived columns.
C10_SameRowsNewColumns ==
    Returned("transform") =>
        /\ Len(X_out.rows) = Len(X_in.rows)
        /\ X_out.index = X_in.index
        /\ \A i \in Rows(X_in) :
              /\ (DOMAIN X_in.rows[i]) \ RemovedColumns
                    \subseteq DOMAIN X_out.rows[i]
              /\ RemovedColumns \cap DOMAIN X_out.rows[i] = {}
              /\ DerivedColumns \subseteq DOMAIN X_out.rows[i]

\* transform returned for a batch of several rows
C10_Witness ==
    /\ Returned("transform")
    /\ Len(X_in.rows) > 1

----------------------------------------------------------------------------
(* safe_num_cast and the flattened rows (C14, C17) *)

IsNaN(x) == x.type = "float" /\ x.den = 0

IsFloatNumber(x) == x.type = "float" /\ x.den # 0

\* The number written as the decimal digits ds
RECURSIVE Positional(_)
Positional(ds) ==
    IF ds = <<>> THEN 0
    ELSE DigitValue(Head(ds)) * PowerOfTen(Len(ds) - 1) + Positional(Tail(ds))

\* The numbers <<num, den>> (one or none) that the characters write as a
\* decimal numeral: lead blanks, an optional "-", whole digits, an optional
\* point, decimals after a point, and blanks to the end, with a digit
\* somewhere.
Numeral(chars) ==
    {<<(IF p[2] = 1 THEN 0 - 1 ELSE 1)
          * Positional(SubSeq(chars, p[1] + p[2] + 1, p[1] + p[2] + p[3])
                       \o SubSeq(chars, p[1] + p[2] + p[3] + p[4] + 1,
                                 p[1] + p[2] + p[3] + p[4] + p[5])),
       PowerOfTen(p[5])>> :
       p \in {q \in (0..Len(chars)) \X {0, 1} \X (0..Len(chars)) \X {0, 1}
                       \X (0..Len(chars)) :
                 /\ q[1] + q[2] + q[3] + q[4] + q[5] <= Len(chars)
                 /\ q[3] + q[5] >= 1
                 /\ q[5] >= 1 => q[4] = 1
                 /\ \A k \in 1..Len(chars) :
                       IF k <= q[1] THEN chars[k] = " "
                       ELSE IF k <= q[1] + q[2] THEN chars[k] = "-"
                       ELSE IF k <= q[1] + q[2] + q[3]
                            THEN chars[k] \in {"4", "5"}
                       ELSE IF k <= q[1] + q[2] + q[3] + q[4]
                            THEN chars[k] = "."
                       ELSE IF k <= q[1] + q[2] + q[3] + q[4] + q[5]
                            THEN chars[k] \in {"4", "5"}
                       ELSE chars[k] = " "}}

\* The numbers (one or none) that a value denotes: an int or a float that
\* is no NaN denotes itself, a numeric string its number, a string ending
\* in "%" the hundredth of the number before the "%".
Denotes(num) ==
    IF num.type = "int" \/ (num.type = "float" /\ num.den # 0)
    THEN {<<num.num, num.den>>}
    ELSE IF num.type # "str" THEN {}
    ELSE IF Numeral(num.chars) # {} THEN Numeral(num.chars)
    ELSE IF num.chars # <<>> /\ num.chars[Len(num.chars)] = "%"
    THEN {<<v[1], 100 * v[2]>> :
             v \in Numeral(SubSeq(num.chars, 1, Len(num.chars) - 1))}
    ELSE {}

\* The numerical fields of a player record by the column they go to
NumericalFields(j_player) ==
    [k \in {<<"rating">>, <<"minutes_played">>, <<"shots", "total">>,
            <<"shots", "on">>, <<"passes", "accuracy">>} |->
        IF Len(k) = 1 THEN j_player[k[1]] ELSE j_player[k[1]][k[2]]]

\* C14: safe_num_cast never raises; for every input (a numeric string, a
\* string ending in "%", another string, the empty string, None, a value
\* that is no string) it returns a number or NaN, and NaN for every input
\* that denotes no number; so json_to_pandas_player and
\* json_to_pandas_fixture_stats return a row whatever the numerical fields
\* of the record hold, with a number or NaN in each of their columns.
C14_SafeNumCastNeverRaises ==
    /\ Called("safe_num_cast") =>
          /\ ret.exc = ""
          /\ IsFloatNumber(ret.val) \/ IsNaN(ret.val)
          /\ Denotes(args[1]) = {} => IsNaN(ret.val)
    /\ Called("json_to_pandas_player") =>
          /\ ret.exc = ""
          /\ \A k \in DOMAIN NumericalFields(args[1]) :
                /\ k \in DOMAIN ret.val.columns
                /\ IsFloatNumber(ret.val.columns[k])
                      \/ IsNaN(ret.val.columns[k])
                /\ Denotes(NumericalFields(args[1])[k]) = {}
                      => IsNaN(ret.val.columns[k])
    /\ Called("json_to_pandas_fixture_stats") =>
          /\ ret.exc = ""
          /\ \A feat \in DOMAIN args[1] \ {"fixture_id"} :
                /\ {<<"home", feat>>, <<"away", feat>>}
                      \subseteq DOMAIN ret.val.columns
                /\ Denotes(args[1][feat].home) = {}
                      => IsNaN(ret.val.columns[<<"home", feat>>])
                /\ Denotes(args[1][feat].away) = {}
                      => IsNaN(ret.val.columns[<<"away", feat>>])

\* A player record whose rating is no number, its shots.total missing and
\* its passes.accuracy a percentage, flattened into a row
C14_Witness ==
    /\ Called("json_to_pandas_player")
    /\ args[1].rating = PyStr(<<"x">>)
    /\ args[1].shots.total = PyNone
    /\ args[1].passes.accuracy = PyStr(<<"4", "5", "%">>)
    /\ ret.exc = ""
    /\ IsNaN(ret.val.columns[<<"rating">>])
    /\ IsNaN(ret.val.columns[<<"shots", "total">>])
    /\ IsFloatNumber(ret.val.columns[<<"passes", "accuracy">>])

\* C17: for every input that denotes a number, safe_num_cast returns that
\* number as a float: a numeric string, a string ending in "%" (the number
\* before it divided by 100), and a value that is an int or a float
\* already; NaN is returned only for inputs that denote no number.
C17_NumbersCastToFloat ==
    Called("safe_num_cast") =>
        /\ ret.exc = ""
        /\ IF Denotes(args[1]) = {}
           THEN IsNaN(ret.val)
           ELSE /\ IsFloatNumber(ret.val)
                /\ \A v \in Denotes(args[1]) :
                      ret.val.num * v[2] = v[1] * ret.val.den

----------------------------------------------------------------------------
(* The cache of get_data (C15, C16) *)

GetCalled == pc = "done" /\ op \in GetOps

\* The resource of the get_* call that has ended, kind and id, which is
\* also how its cache file is named
ResourceOfCall ==
    <<CASE op = "get_leagues" -> "leagues"
        [] op = "get_fixtures" -> "fixtures"
        [] op = "get_fixture_stats" -> "fixture_stats"
        [] op = "get_player_stats" -> "player_stats",
      args[1]>>

\* The root name under which the API answers for a kind of resource
RootNameOf(resource) ==
    CASE resource[1] = "leagues" -> "leagues"
      [] resource[1] = "fixtures" -> "fixtures"
      [] resource[1] = "fixture_stats" -> "statistics"
      [] resource[1] = "player_stats" -> "players"

\* A request is successful when its response has the 'api' key and the
\* root name of its resource in it
Successful(request) ==
    /\ request.r_dict.has_api
    /\ RootNameOf(request.output_file) \in DOMAIN request.r_dict.api

LastRequest(log) == log[Len(log)]

\* C15: in any sequence of get_* calls, a call issues the API GET, for its
\* own resource, only when the cache file of the resource does not exist,
\* and issues none when it exists; after a call has returned successfully
\* the cache file of its resource exists, and no file is removed or
\* rewritten; so a successful request for a resource is the last request
\* for it: at most one successful request is made per resource.
C15_RequestOnlyWhenNotCached ==
    [][/\ requests' # requests =>
             /\ GetCalled'
             /\ requests' = Append(requests, LastRequest(requests'))
             /\ LastRequest(requests').output_file = ResourceOfCall'
             /\ ResourceOfCall' \notin DOMAIN files
       /\ (GetCalled' /\ ResourceOfCall' \in DOMAIN files) =>
             /\ requests' = requests
             /\ ret' = Return(files[ResourceOfCall'])
       /\ (GetCalled' /\ ret'.exc = "") => ResourceOfCall' \in DOMAIN files'
       /\ \A f \in DOMAIN files : f \in DOMAIN files' /\ files'[f] = files[f]
       /\ \A j \in 1..Len(requests') : \A k \in 1..Len(requests') :
             (j < k /\ requests'[j].output_file = requests'[k].output_file)
                => ~Successful(requests'[j])
      ]_vars

\* A call served from the cache: the resource of the call was requested
\* once, successfully, and the last request since was for another resource
C15_Witness ==
    /\ GetCalled
    /\ ret.exc = ""
    /\ Len(requests) = 2
    /\ requests[1].output_file = ResourceOfCall
    /\ Successful(requests[1])
    /\ requests[2].output_file # ResourceOfCall
    /\ ret = Return(files[ResourceOfCall])

\* C16: when the response lacks the 'api' key, or its 'api' object lacks
\* the root name asked for, the get_* call ends with an exception and the
\* cache directory is as it was; a call that fails leaves the cache as it
\* was; a call for a resource that has no cache file issues the request
\* (again, if an earlier call for it failed); and every cache file comes
\* from a successful request for its resource, never from a failed call.
C16_FailedCallLeavesNoCache ==
    [][/\ (GetCalled' /\ requests' # requests
              /\ ~Successful(LastRequest(requests'))) =>
             /\ ret'.exc # ""
             /\ files' = files
       /\ (GetCalled' /\ ret'.exc # "") => files' = files
       /\ (GetCalled' /\ ResourceOfCall' \notin DOMAIN files) =>
             /\ Len(requests') = Len(requests) + 1
             /\ LastRequest(requests').output_file = ResourceOfCall'
       /\ \A f \in DOMAIN files' :
             \E k \in 1..Len(requests') :
                /\ requests'[k].output_file = f
                /\ Successful(requests'[k])
                /\ files'[f] = (RootNameOf(f) :>
                                   requests'[k].r_dict.api[RootNameOf(f)])
      ]_vars

\* A resource requested twice: the first response had no 'api' key, the
\* call for it failed, and the call made again issued the request again and
\* returned
C16_Witness ==
    /\ GetCalled
    /\ Len(requests) = 2
    /\ requests[1].output_file = ResourceOfCall
    /\ requests[2].output_file = ResourceOfCall
    /\ ~requests[1].r_dict.has_api
    /\ ret.exc = ""
    /\ ResourceOfCall \in DOMAIN files

----------------------------------------------------------------------------
(* The occlusion aggregates of transform (C18) *)

\* C18: when transform has returned, every row that has a freeze frame and
\* whose shot is not on the goal line has
\* 0 <= opponents_between <= players_between <= the number of players of
\* its freeze frame, is_there_goalkeeper = 1 only with opponents_between
\* at least 1, and nearest_opponent defined exactly when opponents_between
\* is more than 0.
C18_OcclusionAggregates ==
    Returned("transform") =>
        \A i \in Rows(X_in) :
            (HasFrame(i) /\ ShotOf(i)[1] # GoalLineX) =>
                LET row == X_out.rows[i]
                IN  /\ row.players_between # None
                    /\ row.opponents_between # None
                    /\ 0 <= row.opponents_between[1]
                    /\ row.opponents_between[1] <= row.players_between[1]
                    /\ row.players_between[1] <= Len(FrameOf(i))
                    /\ row.is_there_goalkeeper \in {0, 1}
                    /\ row.is_there_goalkeeper = 1
                          => row.opponents_between[1] >= 1
                    /\ (row.nearest_opponent # None)
                          <=> (row.opponents_between[1] > 0)

\* A row of a two-row batch, shot off the goal line, with an opposing
\* goalkeeper and a teammate counted: one opponent of two players between,
\* the goalkeeper there and the nearest opponent defined; the other row has
\* an empty frame, no player between and no nearest opponent.
C18_Witness ==
    /\ Returned("transform")
    /\ Len(X_in.rows) = 2
    /\ \E i \in Rows(X_in) : \E k \in Rows(X_in) :
          /\ HasFrame(i) /\ ShotOf(i)[1] # GoalLineX
          /\ X_out.rows[i].opponents_between = Some(1)
          /\ X_out.rows[i].players_between = Some(2)
          /\ X_out.rows[i].is_there_goalkeeper = 1
          /\ X_out.rows[i].nearest_opponent # None
          /\ HasFrame(k) /\ ShotOf(k)[1] # GoalLineX
          /\ Len(FrameOf(k)) = 0
          /\ X_out.rows[k].opponents_between = Some(0)
          /\ X_out.rows[k].nearest_opponent = None

====
